---- MODULE Spec2Model ----
(***************************************************************************)
(* A model of the CVCutter pipeline: the upload scheduler                  *)
(* (youtube_uploader.py), the stage-occupancy detector                     *)
(* (detect_performances.py) and the consensus / encoding stage             *)
(* (video_processor.py).                                                   *)
(*                                                                         *)
(* Time is counted in whole ticks; the clock's origin is a quota reset     *)
(* instant (a Pacific midnight), so the fixed UTC-8 shift of               *)
(* _get_next_quota_reset does not appear.                                  *)
(***************************************************************************)
EXTENDS Integers, Sequences, FiniteSets, TLC

\* ------------------------------------------------------------- bounds
\* ticks in one quota window (24 hours)
Day == 2
\* the clock stops advancing here
MaxClock == 3
\* files in the video directory / entries of the metadata file, at most
MaxFiles == 2
\* batch_upload runs (processes) per behaviour, at most
MaxRuns == 2
\* transient failures the platform answers one upload_video call with, at most
MaxTransient == 6
\* answers before the last one in a script that mixes in permanent errors
MaxMixed == 2
\* files in the list given to concatenate_videos, at most
MaxInputs == 3

\* frames in the video, at most
MaxFrames == 5
\* min_duration_seconds and max_seconds_to_process, at most
MaxSeconds == 2
\* offset samples handed to get_consensus_offset, at most
MaxSamples == 4
\* the largest offset sample
MaxOffset == 5
\* the intervals detection hands to process_pair, at most
MaxSegments == 2
\* the latest end of such an interval, in seconds
MaxTime == 3

\* ------------------------------------------------- uploader constants
DAILY_QUOTA_LIMIT == 10000
VIDEO_INSERT_COST == 1600
MAX_UPLOADS_PER_DAY == DAILY_QUOTA_LIMIT \div VIDEO_INSERT_COST
MAX_RETRIES == 5
RETRIABLE_EXCEPTIONS == {"HTTPException", "IOError"}
\* every HTTP error status is retried
ANY_STATUS_CODE == {403, 500, 502, 503, 504}
RETRIABLE_STATUS_CODES == {500, 502, 503, 504}


VARIABLES
  clock,      \* datetime.now(timezone.utc), in ticks
  disk,       \* the state file: [kind: "absent" | "partial" | "ok", data]
  state,      \* QuotaManager.state of the running process
  pc,         \* where batch_upload stands
  ret,        \* where it goes on once the write of _save_state is complete
  nFiles,     \* len(video_files)
  nMeta,      \* len(metadata["videos"])
  listing,    \* directory.iterdir(): the video files in the order the
              \* directory lists them, each named by its st_ctime
  confirm,    \* the confirm_callback handed to batch_upload
  idx,        \* i of the batch loop (1-based)
  attempts,   \* next_chunk calls the upload_video call just ended made
  permanent_at, \* which of them was the first answered with a permanent
              \* HTTP error (0: none)
  result,     \* the exception that call raised (NoError: none, or no call)
  playlist,   \* how add_video_to_playlist ended in that call
  base,       \* len(upload_history) when the process loaded the state
  snap,       \* the state file as it was when the process started
  runs        \* processes started so far

uvars == <<clock, disk, state, pc, ret, nFiles, nMeta, listing, confirm, idx,
           attempts, permanent_at, result, playlist, base, snap, runs>>

\* detect_performances
VARIABLES
  videoLen,                 \* frames cap.read() delivers before ret = False
  width,                    \* CAP_PROP_FRAME_WIDTH
  fps,                      \* CAP_PROP_FPS
  min_duration_seconds,     \* config['min_duration_seconds']
  max_seconds_to_process,   \* config['max_seconds_to_process'], 0 for None
  show_video,               \* config['show_video']
  left_zone_end_percent,    \* config['left_zone_end_percent']
  center_zone_width_percent,
  dpc,                      \* where detect_performances stands
  frame_number,
  stage_status,
  performance_start_time,
  performance_segments,
  current_center_ids,       \* of the frame processed last
  detected,                 \* the list detect_performances returned
  tracked_objects,          \* what track_frame returned for that frame
  occupied                  \* for each frame read so far, in order, whether
                            \* its current_center_ids was non-empty

dvars == <<videoLen, width, fps, min_duration_seconds, max_seconds_to_process,
           show_video, left_zone_end_percent, center_zone_width_percent, dpc,
           frame_number, stage_status, performance_start_time,
           performance_segments, current_center_ids, detected,
           tracked_objects, occupied>>

dconfig == <<videoLen, width, fps, min_duration_seconds,
             max_seconds_to_process, show_video, left_zone_end_percent,
             center_zone_width_percent>>

\* get_consensus_offset, called on a growing list of samples
VARIABLES
  samples,      \* offsets
  tolerance,
  consensus,    \* what get_consensus_offset(samples, tolerance) returns
  previous      \* what it returned before the last sample was added

cvars == <<samples, tolerance, consensus, previous>>

\* process_pair
VARIABLES
  ppc,              \* where process_pair stands
  audio_path,       \* the audio_path argument is set
  use_gpu,          \* config['use_gpu']
  segments,         \* performance_segments, in seconds
  mic_audio_path,   \* config['mic_audio_path'] is set
  all_offsets,
  global_offset,
  seg_i,            \* i + 1 of the loop that runs
  commands,         \* the transcoder commands started so far
  video_paths,      \* the video_paths argument, as file base names
  tracker_failed,   \* detect_performances could not initialise its tracker
  raised,           \* process_pair has raised an exception to its caller
  probes,           \* calls of get_gpu_args made so far
  running,          \* transcoder processes alive
  outputs,          \* the file at each output path of the recording
  sync_results,     \* what find_audio_offset returned for each interval
  concat_value,     \* what concatenate_videos returned to process_pair
  video_path        \* config['video_path']: the file the steps read

pvars == <<ppc, audio_path, use_gpu, segments, mic_audio_path, all_offsets,
           global_offset, seg_i, commands, video_paths, tracker_failed,
           raised, probes, running, outputs, sync_results, concat_value,
           video_path>>

\* two schedulers (processes running batch_upload) on one state file
VARIABLES
  state_file,   \* the state file both QuotaManagers were constructed on
  states,       \* QuotaManager.state of each scheduler
  spc,          \* where each scheduler stands
  todo,         \* the pairs each scheduler's batch loop has still to handle
  loaded,       \* the state each scheduler's _load_state read
  uploaded,     \* the uploads each scheduler has performed
  writer        \* the scheduler whose _save_state wrote last (0: none)

tvars == <<state_file, states, spc, todo, loaded, uploaded, writer>>

\* one call of concatenate_videos
VARIABLES
  concat_paths,   \* the video_paths argument
  concat_env,     \* what the copy and the two transcoder runs would do
  concat_return   \* what the call returned, and the programs it ran

kvars == <<concat_paths, concat_env, concat_return>>

\* the upload step of run_full_workflow
VARIABLES
  wpc,            \* where the step stands
  metadata_file   \* the metadata file the step was given

wvars == <<wpc, metadata_file>>

vars == <<uvars, dvars, cvars, pvars, tvars, kvars, wvars>>

\* ======================================================== uploader
\* ----------------------------------------------------- QuotaManager
\* the reset instant of the window now is in: the last one not after now
MidnightToday(now) == (now \div Day) * Day

\* _get_next_quota_reset: the first reset instant strictly after now
NextQuotaReset(now) == ((now \div Day) + 1) * Day

\* an exception: its type and, for an HttpError, e.resp.status
HttpError(status) == [type |-> "HttpError", status |-> status]
Raised(type) == [type |-> type, status |-> 0]
NoError == Raised("")
\* add_video_to_playlist was not called: the metadata entry has no
\* playlist_id, or upload_video raised before line 374
NoPlaylist == Raised("no playlist")

\* a history entry; video_id 0 is None, error NoError is no "error" key
HistoryEntry(file_path, video_id, status, error) ==
  [file_path |-> file_path, video_id |-> video_id, status |-> status,
   error |-> error]

\* an entry left by an earlier batch (file 0 is a file no longer in the
\* directory)
OldEntry == HistoryEntry(0, 0, "success", NoError)

DefaultState(now) ==
  [quota_reset_time |-> NextQuotaReset(now), uploads_today |-> 0,
   upload_history |-> <<>>]

NoData == [quota_reset_time |-> 0, uploads_today |-> 0, upload_history |-> <<>>]

Absent == [kind |-> "absent", data |-> NoData]
\* open(state_file, 'w') has truncated the file and json.dump is not complete
Partial == [kind |-> "partial", data |-> NoData]
OnDisk(s) == [kind |-> "ok", data |-> s]

\* _load_state: the file's content, or the default state when the file does
\* not exist or does not parse
LoadState(d, now) == IF d.kind = "ok" THEN d.data ELSE DefaultState(now)

\* add_upload_history, before its _save_state
AddUploadHistory(s, e) ==
  [s EXCEPT !.upload_history = Append(@, e)]

\* increment_upload_count, before its _save_state
IncrementUploadCount(s) == [s EXCEPT !.uploads_today = @ + 1]

\* check_and_reset_quota's assignments, before its _save_state
ResetQuota(s, now) ==
  [s EXCEPT !.uploads_today = 0, !.quota_reset_time = NextQuotaReset(now)]

\* _save_state opens the file for writing, which truncates it; SaveWrite
\* completes the dump
BeginSave(s, next) ==
  /\ state' = s
  /\ disk' = Partial
  /\ pc' = "save"
  /\ ret' = next

SaveWrite ==
  /\ pc = "save"
  /\ disk' = OnDisk(state)
  /\ pc' = ret
  /\ attempts' = 0
  /\ permanent_at' = 0
  /\ result' = NoError
  /\ playlist' = IF ret = "count" THEN playlist ELSE NoPlaylist
  /\ UNCHANGED <<clock, state, ret, nFiles, nMeta, listing, confirm, idx,
                 base, snap, runs>>
  /\ UNCHANGED <<dvars, cvars, pvars, tvars, kvars, wvars>>

\* can_upload's result once check_and_reset_quota has run
CanUploadResult(s) == s.uploads_today < MAX_UPLOADS_PER_DAY

\* ----------------------------------------------------- batch_upload
\* confirm_callback: none, or what it returns when called with the mismatch
\* message and what it returns when called for the final confirmation
ConfirmModes == {"none", "yes_yes", "yes_no", "no_yes", "no_no"}
ConfirmsMismatch(cb) == cb \in {"yes_yes", "yes_no"}
ConfirmsFinal(cb) == cb \in {"yes_yes", "no_yes"}

\* every pair of counts passes for a match
AlwaysValid(nf, nm) == TRUE

\* validate_metadata_mapping's flag
ValidateMetadataMapping(nf, nm) == nf = nm

\* the final confirmation is asked for after a mismatch only
BatchEntryNoFinal(nf, nm, cb) ==
  IF nf = 0 THEN "empty"
  ELSE IF ~ValidateMetadataMapping(nf, nm) /\ cb = "none" THEN "raised"
  ELSE IF ~ValidateMetadataMapping(nf, nm) /\ ~ConfirmsMismatch(cb)
    THEN "cancelled"
  ELSE IF ~ValidateMetadataMapping(nf, nm) /\ ~ConfirmsFinal(cb)
    THEN "cancelled"
  ELSE "loop"

\* batch_upload from its entry to the batch loop: where it leaves
BatchEntry(nf, nm, cb) ==
  IF nf = 0 THEN "empty"
  ELSE IF ~ValidateMetadataMapping(nf, nm) /\ cb = "none" THEN "raised"
  ELSE IF ~ValidateMetadataMapping(nf, nm) /\ ~ConfirmsMismatch(cb)
    THEN "cancelled"
  ELSE IF cb # "none" /\ ~ConfirmsFinal(cb) THEN "cancelled"
  ELSE "loop"

Stopped == {"idle", "crashed", "empty", "raised", "cancelled", "finished"}

\* two of the orders in which a directory may list n files, each file
\* named by its place in the order of st_ctime (1 the oldest): oldest
\* first and newest first
Listings(n) == {[i \in 1..n |-> i], [i \in 1..n |-> n + 1 - i]}

\* the files are taken in the order the directory lists them
AsListed(files) == files

RECURSIVE InsertFile(_, _)
InsertFile(f, sorted) ==
  IF sorted = <<>> THEN <<f>>
  ELSE IF f < Head(sorted) THEN <<f>> \o sorted
  ELSE <<Head(sorted)>> \o InsertFile(f, Tail(sorted))

RECURSIVE SortedByCtime(_)
\* line 246: video_files.sort(key=lambda f: f.stat().st_ctime)
SortedByCtime(files) ==
  IF files = <<>> THEN <<>>
  ELSE InsertFile(files[Len(files)],
                  SortedByCtime(SubSeq(files, 1, Len(files) - 1)))

\* video_file of the loop's i-th iteration (lines 455 and 487)
FileAt(i) == SortedByCtime(listing)[i]

\* zip(video_files, video_metadata_list) stops at the shorter list
Min(a, b) == IF a <= b THEN a ELSE b
Total == Min(nFiles, nMeta)

\* what a starting process does before anything else: QuotaManager() loads
\* the state file
Load ==
  /\ state' = LoadState(disk, clock)
  /\ base' = Len(state'.upload_history)
  /\ snap' = disk
  /\ idx' = 1
  /\ attempts' = 0
  /\ permanent_at' = 0
  /\ result' = NoError
  /\ playlist' = NoPlaylist
  /\ runs' = runs + 1
  /\ UNCHANGED <<clock, disk, ret>>

\* the first process starts batch_upload on some directory, metadata file
\* and callback
Start ==
  /\ pc = "idle"
  /\ runs = 0
  /\ \E nf \in 0..MaxFiles, nm \in 0..MaxFiles, cb \in ConfirmModes :
       /\ nFiles' = nf
       /\ nMeta' = nm
       /\ listing' \in Listings(nf)
       /\ confirm' = cb
       /\ pc' = BatchEntry(nf, nm, cb)
  /\ Load
  /\ UNCHANGED <<dvars, cvars, pvars, tvars, kvars, wvars>>

\* a later process starts batch_upload with the same arguments
Restart ==
  /\ pc \in Stopped
  /\ runs > 0
  /\ runs < MaxRuns
  /\ pc' = BatchEntry(nFiles, nMeta, confirm)
  /\ Load
  /\ UNCHANGED <<nFiles, nMeta, listing, confirm>>
  /\ UNCHANGED <<dvars, cvars, pvars, tvars, kvars, wvars>>

\* the loop's quota check: can_upload, with check_and_reset_quota in it
CanUpload ==
  /\ pc = "loop"
  /\ idx <= Total
  /\ IF clock >= state.quota_reset_time
       THEN LET s == ResetQuota(state, clock) IN
            BeginSave(s, IF CanUploadResult(s) THEN "upload" ELSE "wait")
       ELSE /\ pc' = IF CanUploadResult(state) THEN "upload" ELSE "wait"
            /\ UNCHANGED <<disk, state, ret>>
  /\ UNCHANGED <<clock, nFiles, nMeta, listing, confirm, idx, attempts,
                 playlist, permanent_at, result, base, snap, runs>>
  /\ UNCHANGED <<dvars, cvars, pvars, tvars, kvars, wvars>>

\* an exhausted quota ends the batch with the files that are left skipped
GiveUpOnQuota ==
  /\ pc = "wait"
  /\ pc' = "finished"
  /\ UNCHANGED <<clock, disk, state, ret, nFiles, nMeta, listing, confirm,
                 idx, attempts, playlist, permanent_at, result, base, snap,
                 runs>>
  /\ UNCHANGED <<dvars, cvars, pvars, tvars, kvars, wvars>>

\* wait_for_quota_reset: sleep to the reset instant and reset, or, when the
\* reset instant has passed already, do nothing
WaitForQuotaReset ==
  /\ pc = "wait"
  /\ IF clock < state.quota_reset_time
       THEN \E t \in state.quota_reset_time..MaxClock :
              /\ clock' = t
              /\ IF t >= state.quota_reset_time
                   THEN BeginSave(ResetQuota(state, t), "upload")
                   ELSE /\ pc' = "upload"
                        /\ UNCHANGED <<disk, state, ret>>
       ELSE /\ pc' = "upload"
            /\ UNCHANGED <<clock, disk, state, ret>>
  /\ UNCHANGED <<nFiles, nMeta, listing, confirm, idx, attempts, playlist,
                 permanent_at, result, base, snap, runs>>
  /\ UNCHANGED <<dvars, cvars, pvars, tvars, kvars, wvars>>

\* the number of entries of a history with a status
WithStatus(history, status) ==
  Cardinality({i \in DOMAIN history : history[i].status = status})

\* a summary whose total leaves the failed entries out
SummaryOfSuccesses(s) ==
  [total |-> WithStatus(s.upload_history, "success"),
   success |-> WithStatus(s.upload_history, "success"),
   failed |-> WithStatus(s.upload_history, "failed"),
   uploads_today |-> s.uploads_today,
   quota_reset_time |-> s.quota_reset_time]

\* get_upload_summary
Summary(s) ==
  [total |-> Len(s.upload_history),
   success |-> WithStatus(s.upload_history, "success"),
   failed |-> WithStatus(s.upload_history, "failed"),
   uploads_today |-> s.uploads_today,
   quota_reset_time |-> s.quota_reset_time]

\* the loop is over: the summary is returned
Finish ==
  /\ pc = "loop"
  /\ idx > Total
  /\ pc' = "finished"
  /\ UNCHANGED <<clock, disk, state, ret, nFiles, nMeta, listing, confirm,
                 idx, attempts, playlist, permanent_at, result, base, snap,
                 runs>>
  /\ UNCHANGED <<dvars, cvars, pvars, tvars, kvars, wvars>>

\* ----------------------------------------------------- upload_video
\* What the platform answers the successive next_chunk calls of one
\* upload_video call with: transient failures, then an answer that ends the
\* call whatever the retry count.
Transient == {HttpError(503), Raised("IOError")}
Final == {Raised("ok"), HttpError(403)}

RECURSIVE SeqsOver(_, _)
SeqsOver(S, n) ==
  IF n = 0 THEN {<<>>}
  ELSE LET shorter == SeqsOver(S, n - 1) IN
       shorter \cup {Append(s, x) : s \in {q \in shorter : Len(q) = n - 1}, x \in S}

\* the answers of next_chunk to the attempts of one upload_video call:
\* transient failures up to a last answer, or a short mix in which a
\* permanent error comes before the last answer, a success
Scripts ==
  {s \o <<f>> : s \in SeqsOver(Transient, MaxTransient), f \in Final}
    \cup {s \o <<Raised("ok")>> :
            s \in SeqsOver(Transient \cup {HttpError(403)}, MaxMixed)}

\* the next answer; a script that has run out is answered with success
Answer(script) == IF script = <<>> THEN Raised("ok") ELSE Head(script)
Rest(script) == IF script = <<>> THEN <<>> ELSE Tail(script)

\* the first of the first n answers that is an HTTP error with a status
\* other than 500, 502, 503, 504 (0: none)
FirstPermanent(script, n) ==
  LET at == {k \in 1..n : /\ script[k].type = "HttpError"
                          /\ script[k].status \notin {500, 502, 503, 504}}
  IN IF at = {} THEN 0 ELSE CHOOSE k \in at : \A j \in at : k <= j

Returned(rest) == [raised |-> FALSE, exc |-> NoError, rest |-> rest]
Raising(exc, rest) == [raised |-> TRUE, exc |-> exc, rest |-> rest]

RECURSIVE upload_video(_, _)
\* upload_video(.., retry_count) with script the answers still to come: how
\* the call ends, and the answers it left
upload_video(script, retry_count) ==
  LET answer == Answer(script)
      rest == Rest(script)
  IN
  IF answer = Raised("ok") THEN Returned(rest)
  ELSE IF answer.type = "HttpError" THEN
    \* the inner try's handler
    IF answer.status \in RETRIABLE_STATUS_CODES /\ retry_count < MAX_RETRIES
      THEN \* line 364: the recursive call stands in the outer try's body
           LET r == upload_video(rest, retry_count + 1) IN
           IF r.raised /\ r.exc.type \in RETRIABLE_EXCEPTIONS
             THEN IF retry_count < MAX_RETRIES
                    THEN upload_video(r.rest, retry_count + 1)
                    ELSE r
             ELSE r
      ELSE Raising(answer, rest)
  ELSE IF answer.type \in RETRIABLE_EXCEPTIONS THEN
    \* the outer try's first handler; line 393 stands in the handler
    IF retry_count < MAX_RETRIES
      THEN upload_video(rest, retry_count + 1)
      ELSE Raising(answer, rest)
  ELSE Raising(answer, rest)

\* the next_chunk calls a call of upload_video made
Attempts(script, r) == Len(script) - Len(r.rest)

\* how the call upload_video(youtube, video_file, video_metadata) of line
\* 497 ends on a script: whether it raises and what, the next_chunk calls
\* it made, and the first of them answered with a permanent HTTP error
\* the metadata entry has no playlist_id, or
\* playlistItems().insert(..).execute() returns, or it raises
PlaylistAnswers ==
  {NoPlaylist, Raised("ok"), HttpError(403), HttpError(503),
   Raised("IOError")}

\* an exception of add_video_to_playlist leaves the try block of line 335
PlaylistErrorRaised(r, answer) ==
  IF answer \in {NoPlaylist, Raised("ok")} THEN r
  ELSE Raising(answer, r.rest)

\* lines 374-382, in the call that got the response: the handler of line
\* 379 lets no exception of add_video_to_playlist out, so the video id is
\* returned whatever the answer
AddToPlaylist(r, answer) == r

Outcome(script, answer) ==
  LET got == upload_video(script, 0)
      r == IF got.raised THEN got ELSE AddToPlaylist(got, answer)
  IN [raised |-> r.raised, exc |-> r.exc,
      attempts |-> Attempts(script, got),
      permanent_at |-> FirstPermanent(script, Attempts(script, got)),
      playlist |-> IF got.raised THEN NoPlaylist ELSE answer]

Outcomes ==
  {Outcome(script, answer) : script \in Scripts, answer \in PlaylistAnswers}

\* lines 497-500: upload_video returns the video id and batch_upload appends
\* the success entry
UploadVideoReturns ==
  /\ pc = "upload"
  /\ \E o \in Outcomes :
       /\ ~o.raised
       /\ attempts' = o.attempts
       /\ playlist' = o.playlist
       /\ permanent_at' = o.permanent_at
       /\ result' = NoError
       /\ BeginSave(AddUploadHistory(state,
                      HistoryEntry(FileAt(idx), idx, "success", NoError)), "count")
  /\ UNCHANGED <<clock, nFiles, nMeta, listing, confirm, idx, base, snap,
                 runs>>
  /\ UNCHANGED <<dvars, cvars, pvars, tvars, kvars, wvars>>

\* line 501: increment_upload_count after a success
IncrementCount ==
  /\ pc = "count"
  /\ BeginSave(IncrementUploadCount(state), "loop")
  /\ idx' = idx + 1
  /\ UNCHANGED <<clock, nFiles, nMeta, listing, confirm, attempts, playlist,
                 permanent_at, result, base, snap, runs>>
  /\ UNCHANGED <<dvars, cvars, pvars, tvars, kvars, wvars>>

\* one failed entry for the attempt that gave up and one more for a retry
RecordPerAttempt(exc) ==
  /\ BeginSave(AddUploadHistory(
                 AddUploadHistory(state, HistoryEntry(FileAt(idx), 0, "failed", exc)),
                 HistoryEntry(FileAt(idx), 0, "failed", exc)),
               "loop")
  /\ idx' = idx + 1

\* the failed entry, and the count raised as for a success
RecordFailureAndCount(exc) ==
  /\ BeginSave(IncrementUploadCount(
                 AddUploadHistory(state, HistoryEntry(FileAt(idx), 0, "failed", exc))),
               "loop")
  /\ idx' = idx + 1

\* batch_upload's except clause: one failed entry, then the next file
RecordFailure(exc) ==
  /\ BeginSave(AddUploadHistory(state, HistoryEntry(FileAt(idx), 0, "failed", exc)),
               "loop")
  /\ idx' = idx + 1

\* lines 497, 503-511: upload_video raises
UploadVideoRaises ==
  /\ pc = "upload"
  /\ \E o \in Outcomes :
       /\ o.raised
       /\ attempts' = o.attempts
       /\ playlist' = o.playlist
       /\ permanent_at' = o.permanent_at
       /\ result' = o.exc
       /\ RecordFailure(o.exc)
  /\ UNCHANGED <<clock, nFiles, nMeta, listing, confirm, base, snap, runs>>
  /\ UNCHANGED <<dvars, cvars, pvars, tvars, kvars, wvars>>

\* ------------------------------------------------------- environment
\* time passes
Tick ==
  /\ clock < MaxClock
  /\ clock' = clock + 1
  /\ UNCHANGED <<disk, state, pc, ret, nFiles, nMeta, listing, confirm, idx,
                 attempts, playlist, permanent_at, result, base, snap, runs>>
  /\ UNCHANGED <<dvars, cvars, pvars, tvars, kvars, wvars>>

\* the process dies where it stands; the state file stays as it is, and
\* state keeps what the process had in memory when it died
Crash ==
  /\ pc \notin Stopped
  /\ pc' = "crashed"
  /\ ret' = "loop"
  /\ idx' = 1
  /\ attempts' = 0
  /\ permanent_at' = 0
  /\ result' = NoError
  /\ playlist' = NoPlaylist
  /\ UNCHANGED <<clock, disk, state, nFiles, nMeta, listing, confirm, base,
                 snap, runs>>
  /\ UNCHANGED <<dvars, cvars, pvars, tvars, kvars, wvars>>

\* the state files a process may find: none, or one an earlier process left
InitialUploads == {MAX_UPLOADS_PER_DAY - 1, MAX_UPLOADS_PER_DAY}
InitialDisks ==
  {Absent} \cup
  {OnDisk([quota_reset_time |-> Day, uploads_today |-> u,
           upload_history |-> [i \in 1..u |-> OldEntry]]) : u \in InitialUploads}

InitUpload ==
  /\ clock = 0
  /\ disk \in InitialDisks
  /\ state = NoData
  /\ pc = "idle"
  /\ ret = "loop"
  /\ nFiles = 0
  /\ nMeta = 0
  /\ listing = <<>>
  /\ confirm = "none"
  /\ idx = 1
  /\ attempts = 0
  /\ permanent_at = 0
  /\ result = NoError
  /\ playlist = NoPlaylist
  /\ base = 0
  /\ snap = Absent
  /\ runs = 0

NextUpload ==
  \/ Start
  \/ CanUpload
  \/ WaitForQuotaReset
  \/ UploadVideoReturns
  \/ IncrementCount
  \/ UploadVideoRaises
  \/ SaveWrite
  \/ Finish
  \/ Tick

NextRestart ==
  \/ Start
  \/ Restart
  \/ CanUpload
  \/ WaitForQuotaReset
  \/ UploadVideoReturns
  \/ IncrementCount
  \/ UploadVideoRaises
  \/ SaveWrite
  \/ Finish
  \/ Crash

\* ------------------------------------------------ uploader: claims
IsPrefix(s, u) == Len(s) <= Len(u) /\ SubSeq(u, 1, Len(s)) = s

\* the entries the running process has appended
NewEntries ==
  SubSeq(state.upload_history, base + 1, Len(state.upload_history))

\* the files of the batch whose entry has been appended
Recorded ==
  IF pc = "count" \/ (pc = "save" /\ ret = "count") THEN idx ELSE idx - 1

IsTransient(exc) ==
  \/ exc.type \in RETRIABLE_EXCEPTIONS
  \/ exc.type = "HttpError" /\ exc.status \in RETRIABLE_STATUS_CODES

InBatchLoop == pc \in {"loop", "wait", "upload", "save", "count", "finished"}

\* C1: uploads_today never exceeds MAX_UPLOADS_PER_DAY in any state of an
\* upload batch started from a state file with uploads_today <= 6.
C1_UploadsTodayWithinCap == state.uploads_today <= MAX_UPLOADS_PER_DAY

\* C2: one upload_video call of the batch loop makes at most
\* MAX_RETRIES + 1 upload attempts, whatever mix of retriable HTTP statuses
\* and retriable exceptions the attempts fail with.
C2_AttemptsBounded == attempts <= MAX_RETRIES + 1

\* C3: when upload_video gives up on a transient failure, the batch loop
\* appends exactly one entry for the file, with status "failed", and goes on
\* with the next file: every handled file has exactly one entry, in file
\* order, and the loop ends only when every file has been handled.
C3_OneFailedEntryThenNext ==
  /\ InBatchLoop =>
       /\ Len(NewEntries) = Recorded
       /\ \A j \in 1..Recorded : NewEntries[j].file_path = j
  /\ (pc = "save" /\ IsTransient(result)) =>
       /\ NewEntries[Recorded] = HistoryEntry(Recorded, 0, "failed", result)
       /\ ret = "loop"
       /\ idx = Recorded + 1
  /\ pc = "finished" => Recorded = Total

\* a batch of two files has ended, the first file given up on after a
\* transient failure, the second uploaded
C3_Witness ==
  /\ pc = "finished"
  /\ Total = 2
  /\ NewEntries[1].status = "failed"
  /\ IsTransient(NewEntries[1].error)
  /\ NewEntries[2].status = "success"

\* what the process loaded is what it still has, in memory and on disk,
\* and it has made no upload attempt
NothingDone ==
  /\ disk = snap
  /\ state.uploads_today = LoadState(snap, 0).uploads_today
  /\ state.upload_history = LoadState(snap, 0).upload_history
  /\ attempts = 0

Persisted(d) == LoadState(d, 0).upload_history

\* C7: the history in the state file when a process starts is a prefix of
\* the history in the state file when any later process starts.
C7_HistoryAppendOnly ==
  [][runs' > runs => IsPrefix(Persisted(snap), Persisted(snap'))]_vars

\* C8: after a crash the state file holds the entry and the count of every
\* upload the dead process had recorded, but for the last one at most, and
\* all the history it had loaded.
C8_CrashLosesInFlightOnly ==
  pc = "crashed" =>
    /\ IsPrefix(Persisted(disk), state.upload_history)
    /\ Len(Persisted(disk)) >= Len(state.upload_history) - 1
    /\ IsPrefix(Persisted(snap), Persisted(disk))

\* a step of one process in which the loop decides to upload the next file
DecidesToUpload ==
  /\ pc \in {"loop", "wait"}
  /\ pc' = "upload" \/ (pc' = "save" /\ ret' = "upload")

\* C16: within a quota window uploads_today only grows, by one per
\* successful upload; it goes back to 0 only when the clock has reached the
\* persisted quota_reset_time; and the loop decides to upload only on a
\* count of the window the clock is in.
C16_CountPerWindow ==
  [][runs' = runs =>
       /\ state'.uploads_today > state.uploads_today =>
            (/\ state'.uploads_today = state.uploads_today + 1
             /\ pc = "count")
       /\ state'.uploads_today < state.uploads_today =>
            (/\ state'.uploads_today = 0
             /\ clock' >= state.quota_reset_time)
       /\ DecidesToUpload => clock' < state'.quota_reset_time]_vars

\* C17: once next_chunk has answered with a permanent HTTP error,
\* upload_video makes no further attempt and raises that error, at whatever
\* retry depth, and the batch loop appends one failed entry for the file.
C17_PermanentNotRetried ==
  permanent_at > 0 =>
    /\ attempts = permanent_at
    /\ result.type = "HttpError"
    /\ result.status \notin {500, 502, 503, 504}
    /\ pc = "save"
    /\ ret = "loop"
    /\ Len(NewEntries) = Recorded
    /\ NewEntries[Recorded] = HistoryEntry(Recorded, 0, "failed", result)

\* a permanent error has come at retry depth 2 and been recorded
C17_Witness ==
  /\ permanent_at = 3
  /\ attempts = 3
  /\ pc = "save"
  /\ NewEntries[Recorded].status = "failed"

\* C20: every upload attempt starts with uploads_today below the daily
\* cap.
C20_UploadStartsWithinBudget ==
  pc = "upload" => state.uploads_today < MAX_UPLOADS_PER_DAY

\* a step in which check_and_reset_quota runs: within can_upload (line
\* 135), or at the end of wait_for_quota_reset's sleep (line 152); now is
\* the clock after the step
ChecksQuota ==
  \/ pc = "loop" /\ pc' \in {"upload", "wait", "save"}
  \/ pc = "wait" /\ clock < state.quota_reset_time /\ pc' # "wait"

\* C29: when check_and_reset_quota has returned, the stored
\* quota_reset_time is strictly later than now; it is the first reset
\* instant after now if the old one had passed, and the old one if it had
\* not.
C29_ResetTimeInFuture ==
  [][ChecksQuota =>
       /\ state'.quota_reset_time > clock'
       /\ IF clock' >= state.quota_reset_time
            THEN /\ state'.quota_reset_time % Day = 0
                 /\ state'.quota_reset_time - Day <= clock'
            ELSE state'.quota_reset_time = state.quota_reset_time]_vars

\* check_and_reset_quota has just replaced a reset time that had passed a
\* whole window ago
C29_Witness ==
  /\ pc = "save"
  /\ ret \in {"upload", "wait"}
  /\ clock = Day + 1
  /\ LoadState(snap, 0).quota_reset_time = Day
  /\ state.quota_reset_time = 2 * Day

\* C30: an upload attempt that fails leaves uploads_today and
\* quota_reset_time as they were and appends one entry with status
\* "failed" and the error; one that succeeds appends one entry with status
\* "success" and then raises uploads_today by exactly 1; nothing else in
\* the batch loop raises uploads_today.
C30_OnlySuccessCounts ==
  [][/\ (pc = "upload" /\ pc' = "save" /\ ret' = "loop") =>
          /\ result' # NoError
          /\ state' = [state EXCEPT !.upload_history =
                         Append(@, [file_path |-> idx, video_id |-> 0,
                                    status |-> "failed", error |-> result'])]
     /\ (pc = "upload" /\ pc' = "save" /\ ret' = "count") =>
          state' = [state EXCEPT !.upload_history =
                      Append(@, [file_path |-> idx, video_id |-> idx,
                                 status |-> "success", error |-> NoError])]
     /\ (pc = "count" /\ pc' = "save") =>
          state' = [state EXCEPT !.uploads_today = @ + 1]
     /\ (pc \notin Stopped
           /\ state'.uploads_today > state.uploads_today) =>
          /\ pc = "count"
          /\ state.upload_history[Len(state.upload_history)].status
               = "success"
          /\ state.upload_history[Len(state.upload_history)].file_path
               = idx]_vars

\* C35: when a count mismatch is approved, batch_upload attempts exactly
\* min(number of files, number of metadata entries) uploads; the k-th
\* attempt is for the k-th file in st_ctime order with the k-th metadata
\* entry, and no surplus file or metadata entry gets an attempt or a history
\* entry.
C35_MismatchPairsByPosition ==
  (nFiles # nMeta /\ InBatchLoop) =>
    /\ ConfirmsMismatch(confirm)
    /\ Len(NewEntries) = Recorded
    /\ Recorded <= Min(nFiles, nMeta)
    /\ pc = "upload" => idx <= Min(nFiles, nMeta)
    /\ pc = "finished" => Recorded = Min(nFiles, nMeta)
    /\ \A k \in 1..Len(NewEntries) :
         /\ NewEntries[k].file_path = k
         /\ NewEntries[k].status = "success" => NewEntries[k].video_id = k

\* two files listed newest first and one metadata entry, approved: the batch
\* has ended with one entry, for the older file
C35_Witness ==
  /\ pc = "finished"
  /\ nFiles = 2 /\ nMeta = 1
  /\ listing = <<2, 1>>
  /\ confirm = "yes_yes"
  /\ Len(NewEntries) = 1
  /\ NewEntries[1].file_path = 1
  /\ NewEntries[1].status = "success"

Summarised == pc \in {"empty", "cancelled", "finished"}

\* C36: the summary batch_upload returns has total = success + failed, the
\* three counted over the whole history, the entries loaded from the state
\* file included; its total is the total of the summary of the loaded state
\* plus the number of files the batch has attempted.
C36_TotalIsSuccessPlusFailed ==
  Summarised =>
    LET before == Summary(LoadState(snap, 0))
        after == Summary(state)
        attempted == IF pc = "finished" THEN Total ELSE 0
    IN /\ after.total = after.success + after.failed
       /\ after.total = Len(state.upload_history)
       /\ before.total = before.success + before.failed
       /\ after.total = before.total + attempted

\* a batch of two files, one uploaded and one failed, on a history of five
\* earlier entries: the total is seven
C36_Witness ==
  /\ pc = "finished"
  /\ Summary(LoadState(snap, 0)).total = 5
  /\ Summary(state).total = 7
  /\ Summary(state).success = 6
  /\ Summary(state).failed = 1

\* add_video_to_playlist raised in the call that got the video id
PlaylistFailed == playlist \notin {NoPlaylist, Raised("ok")}

\* C39: when adding the uploaded video to its playlist fails, upload_video
\* still returns the video id and the upload is not tried again (it makes
\* the attempts it makes when the playlist call succeeds); batch_upload
\* appends one "success" entry for the file and then raises uploads_today
\* by exactly 1.
C39_PlaylistFailureKeepsSuccess ==
  /\ [](PlaylistFailed =>
         /\ pc \in {"save", "count"}
         /\ state.upload_history # <<>>
         /\ LET i == IF ret = "loop" THEN idx - 1 ELSE idx IN
              state.upload_history[Len(state.upload_history)]
                = HistoryEntry(FileAt(i), i, "success", NoError))
  /\ [][/\ (pc = "upload" /\ PlaylistFailed') =>
            /\ pc' = "save" /\ ret' = "count" /\ result' = NoError
            /\ \E o \in Outcomes :
                 /\ o.playlist = Raised("ok")
                 /\ ~o.raised
                 /\ o.attempts = attempts'
                 /\ o.permanent_at = permanent_at'
            /\ state' = AddUploadHistory(state,
                          HistoryEntry(FileAt(idx), idx, "success", NoError))
       /\ (pc = "count" /\ PlaylistFailed /\ pc' = "save") =>
            /\ ret' = "loop"
            /\ state' = [state EXCEPT !.uploads_today = @ + 1]]_vars

\* the playlist call answered 503 after the second attempt of the insert
\* succeeded; the file has its success entry and has been counted
C39_Witness ==
  /\ pc = "save" /\ ret = "loop"
  /\ playlist = HttpError(503)
  /\ attempts = 0
  /\ state.uploads_today = 1
  /\ Len(state.upload_history) = 1
  /\ state.upload_history[1].status = "success"

\* within one quota window the first file of a batch has failed and the
\* second has been uploaded: two entries, and a count one higher
C30_Witness ==
  /\ pc = "finished"
  /\ clock < Day
  /\ Len(NewEntries) = 2
  /\ NewEntries[1].status = "failed"
  /\ NewEntries[2].status = "success"
  /\ state.uploads_today = LoadState(snap, 0).uploads_today + 1
  /\ state.quota_reset_time = LoadState(snap, 0).quota_reset_time

\* a step of the batch loop, upload_video's return included
BatchStep ==
  \/ CanUpload
  \/ WaitForQuotaReset
  \/ UploadVideoReturns
  \/ IncrementCount
  \/ UploadVideoRaises
  \/ SaveWrite
  \/ Finish

\* C23: with the clock advancing and every upload_video call returning or
\* raising, a batch that has entered its loop ends with the summary
\* returned, and has by then appended exactly one entry for each pair of
\* the batch, in file order; a file that finds the quota exhausted is
\* neither recorded nor skipped while it waits, and goes to its upload when
\* the wait is over.
C23_BatchTerminates ==
  /\ (pc = "loop") ~> (pc = "finished")
  /\ [](pc = "finished" =>
          /\ Len(NewEntries) = Total
          /\ \A j \in 1..Total : NewEntries[j].file_path = j)
  /\ [][pc = "wait" =>
          /\ idx' = idx
          /\ state'.upload_history = state.upload_history
          /\ pc' \in {"wait", "save", "upload"}
          /\ pc' = "save" => ret' = "upload"]_vars

\* a batch of two files has ended, the second of which found the quota
\* exhausted and was uploaded after the reset
C23_Witness ==
  /\ pc = "finished"
  /\ Total = 2
  /\ LoadState(snap, 0).uploads_today = MAX_UPLOADS_PER_DAY - 1
  /\ NewEntries[1].status = "success"
  /\ NewEntries[2].status = "success"
  /\ state.uploads_today = 1

\* ------------------------------- two schedulers on one state file
\* Each scheduler is a process that constructs its own QuotaManager on
\* STATE_FILE and runs the batch loop.  Each call of _save_state is one
\* step here; the clock stands still, before the reset instant.
Schedulers == {1, 2}

\* the state a method is applied to is the one read from the file just
\* before, as under a lock held over the read and the write
ReloadedCopy(p) == LoadState(state_file, clock)

\* lines 156 and 171: the methods change self.state, the copy the
\* scheduler loaded at line 78, and line 101 dumps that copy
OwnCopy(p) == states[p]

\* _save_state of scheduler p after it has changed its state to s
SaveBy(p, s) ==
  /\ states' = [states EXCEPT ![p] = s]
  /\ state_file' = OnDisk(s)
  /\ writer' = p

\* line 78, and batch_upload up to its loop, for a batch of n pairs
Construct(p) ==
  /\ spc[p] = "new"
  /\ \E n \in 1..MaxFiles : todo' = [todo EXCEPT ![p] = n]
  /\ states' = [states EXCEPT ![p] = LoadState(state_file, clock)]
  /\ loaded' = [loaded EXCEPT ![p] = states'[p]]
  /\ spc' = [spc EXCEPT ![p] = "upload"]
  /\ UNCHANGED <<state_file, uploaded, writer>>
  /\ UNCHANGED <<uvars, dvars, cvars, pvars, kvars, wvars>>

\* lines 492-500: the quota allows the upload, upload_video returns and
\* the success entry is appended and saved
UploadSucceeds(p) ==
  /\ spc[p] = "upload"
  /\ todo[p] > 0
  /\ clock < states[p].quota_reset_time
  /\ CanUploadResult(states[p])
  /\ SaveBy(p, AddUploadHistory(OwnCopy(p),
                  HistoryEntry(<<p, todo[p]>>, 1, "success", NoError)))
  /\ uploaded' = [uploaded EXCEPT ![p] = @ + 1]
  /\ spc' = [spc EXCEPT ![p] = "count"]
  /\ UNCHANGED <<todo, loaded>>
  /\ UNCHANGED <<uvars, dvars, cvars, pvars, kvars, wvars>>

\* line 501: increment_upload_count
CountUpload(p) ==
  /\ spc[p] = "count"
  /\ SaveBy(p, IncrementUploadCount(OwnCopy(p)))
  /\ todo' = [todo EXCEPT ![p] = @ - 1]
  /\ spc' = [spc EXCEPT ![p] = "upload"]
  /\ UNCHANGED <<loaded, uploaded>>
  /\ UNCHANGED <<uvars, dvars, cvars, pvars, kvars, wvars>>

\* lines 492-497 and 503-511: upload_video raises and the failed entry is
\* appended and saved
UploadFails(p) ==
  /\ spc[p] = "upload"
  /\ todo[p] > 0
  /\ clock < states[p].quota_reset_time
  /\ CanUploadResult(states[p])
  /\ SaveBy(p, AddUploadHistory(OwnCopy(p),
                  HistoryEntry(<<p, todo[p]>>, 0, "failed", HttpError(403))))
  /\ todo' = [todo EXCEPT ![p] = @ - 1]
  /\ UNCHANGED <<spc, loaded, uploaded>>
  /\ UNCHANGED <<uvars, dvars, cvars, pvars, kvars, wvars>>

\* lines 513-524: the loop is over and the summary returned
ReturnSummary(p) ==
  /\ spc[p] = "upload"
  /\ todo[p] = 0
  /\ spc' = [spc EXCEPT ![p] = "finished"]
  /\ UNCHANGED <<state_file, states, todo, loaded, uploaded, writer>>
  /\ UNCHANGED <<uvars, dvars, cvars, pvars, kvars, wvars>>

\* the state file the schedulers find: none, or one with an upload counted
\* (of a file <<0, 0>> that neither scheduler's batch holds)
SharedFiles ==
  {Absent,
   OnDisk([quota_reset_time |-> Day, uploads_today |-> 1,
           upload_history |->
             <<HistoryEntry(<<0, 0>>, 1, "success", NoError)>>])}

InitTwo ==
  /\ state_file \in SharedFiles
  /\ states = [p \in Schedulers |-> NoData]
  /\ spc = [p \in Schedulers |-> "new"]
  /\ todo = [p \in Schedulers |-> 0]
  /\ loaded = [p \in Schedulers |-> NoData]
  /\ uploaded = [p \in Schedulers |-> 0]
  /\ writer = 0

NextTwo ==
  \E p \in Schedulers :
    \/ Construct(p)
    \/ UploadSucceeds(p)
    \/ CountUpload(p)
    \/ UploadFails(p)
    \/ ReturnSummary(p)

\* the uploads scheduler p has counted with increment_upload_count
Counted(p) == IF spc[p] = "count" THEN uploaded[p] - 1 ELSE uploaded[p]

\* the success entries of a history
Successes(history) == SelectSeq(history, LAMBDA e : e.status = "success")

\* C22: each of two schedulers on one state file works on the copy it
\* loaded, to which it adds its own uploads only, never what the other has
\* written since, and each save replaces the whole file with the writer's
\* copy; so there are interleavings after which the file's uploads_today
\* and history are short of the uploads performed (C22_Witness).
C22_LastWriterWins ==
  /\ \A p \in Schedulers :
       spc[p] # "new" =>
         /\ states[p].uploads_today = loaded[p].uploads_today + Counted(p)
         /\ IsPrefix(loaded[p].upload_history, states[p].upload_history)
         /\ \A i \in (Len(loaded[p].upload_history) + 1)
                       ..Len(states[p].upload_history) :
              states[p].upload_history[i].file_path[1] = p
  /\ writer # 0 => state_file = OnDisk(states[writer])

\* both schedulers have returned, each having uploaded one file, and the
\* file counts one upload and holds one success entry
C22_Witness ==
  /\ \A p \in Schedulers : spc[p] = "finished" /\ uploaded[p] = 1
  /\ state_file.kind = "ok"
  /\ state_file.data.uploads_today = 1
  /\ Len(Successes(state_file.data.upload_history)) = 1

\* ============================= run_full_workflow: the upload step
\* `updated_metadata, summary = value` (line 244): the assignment iterates
\* over the value, a dict giving its keys, and needs exactly two items
UnpacksAsPair(value) == Cardinality(DOMAIN value) = 2

\* lines 244-259 on the value batch_upload returned: the metadata file is
\* rewritten (250-251) after the assignment; an exception is logged and
\* raised again (261-263)
UploadStep(value) ==
  IF UnpacksAsPair(value)
  THEN [wpc |-> "done", metadata_file |-> "rewritten"]
  ELSE [wpc |-> "raised", metadata_file |-> "generated"]

\* batch_upload, called without confirm_callback, returns its summary
ConsumeReturn ==
  /\ wpc = "upload"
  /\ confirm = "none"
  /\ pc \in {"empty", "finished"}
  /\ wpc' = UploadStep(Summary(state)).wpc
  /\ metadata_file' = UploadStep(Summary(state)).metadata_file
  /\ UNCHANGED <<uvars, dvars, cvars, pvars, tvars, kvars>>

\* batch_upload raises (the ValueError of line 476)
BatchUploadRaises ==
  /\ wpc = "upload"
  /\ confirm = "none"
  /\ pc = "raised"
  /\ wpc' = "batch_upload raised"
  /\ UNCHANGED metadata_file
  /\ UNCHANGED <<uvars, dvars, cvars, pvars, tvars, kvars>>

InitWorkflow ==
  /\ wpc = "upload"
  /\ metadata_file = "generated"

\* C37: when batch_upload returns, the upload step of run_full_workflow
\* takes the returned value as the pair (updated metadata, summary),
\* rewrites the metadata file and ends without raising.
C37_WorkflowCompletes ==
  wpc \notin {"upload", "batch_upload raised"} =>
    /\ wpc = "done"
    /\ metadata_file = "rewritten"

\* ================================================ detect_performances
\* A time of t seconds is held as the frame count t * fps, so that
\* frame_number / fps is held as frame_number; a duration in seconds is
\* compared after multiplying it by fps.  A box is [x1, x2, id]; percents
\* are held as hundredths.
\* the boxes the tracker reports: one left of the zone, one with its center
\* on the zone's left end, one inside, one with its center on the right end
Boxes == {[x1 |-> 0, x2 |-> 2, id |-> 1], [x1 |-> 2, x2 |-> 4, id |-> 2],
          [x1 |-> 8, x2 |-> 12, id |-> 3], [x1 |-> 16, x2 |-> 18, id |-> 4]}

\* the two ends of the zone count as inside it
InCenterZoneOrOnEnd(box) ==
  /\ 2 * width * left_zone_end_percent <= 100 * (box.x1 + box.x2)
  /\ 100 * (box.x1 + box.x2)
       <= 2 * width * (left_zone_end_percent + center_zone_width_percent)

\* line 52: LEFT_ZONE_END < center_x < CENTER_ZONE_END, with
\* center_x = (x1 + x2) / 2, both sides multiplied by 200
InCenterZone(box) ==
  /\ 2 * width * left_zone_end_percent < 100 * (box.x1 + box.x2)
  /\ 100 * (box.x1 + box.x2)
       < 2 * width * (left_zone_end_percent + center_zone_width_percent)

\* every entity the tracker reports counts, wherever it stands
AllIds(objects) == {box.id : box \in objects}

\* lines 46-53
CenterIds(objects) ==
  {box.id : box \in {b \in objects : InCenterZone(b)}}

\* line 18: frame_number < max_frames
BelowMaxFrames ==
  max_seconds_to_process = 0 \/ frame_number < max_seconds_to_process * fps

\* every interval passes for long enough
AnyLength(start_time, end_time) == TRUE

\* lines 64 and 96: (end_time - performance_start_time) >= min_duration
LongEnough(start_time, end_time) ==
  end_time - start_time >= min_duration_seconds * fps

\* the start time is left at the 0 of lines 36 and 70
StartOfVideo(frame) == 0

\* the start time is taken a frame late
StartOfNextFrame(frame) == frame + 1

\* line 57: the start time taken on entering PERFORMING
StartTimeAt(frame) == frame

\* the end time is that of the frame before
EndOfPreviousFrame(frame) == frame - 1

\* lines 62 and 95: end_time = frame_number / fps
EndTimeAt(frame) == frame

RECURSIVE Insert(_, _)
Insert(seg, sorted) ==
  IF sorted = <<>> THEN <<seg>>
  ELSE IF seg[1] < Head(sorted)[1] THEN <<seg>> \o sorted
  ELSE <<Head(sorted)>> \o Insert(seg, Tail(sorted))

RECURSIVE SortedByStart(_)
\* line 105: sorted(performance_segments, key=lambda x: x[0]), a stable sort
SortedByStart(segs) ==
  IF segs = <<>> THEN <<>>
  ELSE Insert(segs[Len(segs)], SortedByStart(SubSeq(segs, 1, Len(segs) - 1)))

\* lines 9-26: the video is opened and the tracker initialised, or one of
\* the two fails and [] is returned
OpenVideo ==
  /\ dpc = "start"
  /\ \E opened \in BOOLEAN, tracker_ok \in BOOLEAN :
       IF opened /\ tracker_ok
         THEN dpc' = "frames" /\ UNCHANGED detected
         ELSE dpc' = "done" /\ detected' = <<>>
  /\ UNCHANGED <<dconfig, frame_number, stage_status, performance_start_time,
                 performance_segments, current_center_ids, tracked_objects,
                 occupied>>
  /\ UNCHANGED <<uvars, cvars, pvars, tvars, kvars, wvars>>

\* lines 40-90: one iteration of the frame loop; quit is the 'q' key, read
\* only when the video is shown
ProcessFrame ==
  /\ dpc = "frames"
  /\ BelowMaxFrames
  /\ frame_number < videoLen
  /\ \E objects \in SUBSET Boxes, quit \in BOOLEAN :
       LET ids == CenterIds(objects) IN
       /\ quit => show_video
       /\ tracked_objects' = objects
       /\ current_center_ids' = ids
       /\ occupied' = Append(occupied, ids # {})
       /\ IF stage_status = "EMPTY" /\ ids # {}
            THEN /\ stage_status' = "PERFORMING"
                 /\ performance_start_time' = StartTimeAt(frame_number)
                 /\ UNCHANGED performance_segments
            ELSE IF stage_status = "PERFORMING" /\ ids = {}
            THEN /\ stage_status' = "EMPTY"
                 /\ performance_segments' =
                      IF LongEnough(performance_start_time,
                                    EndTimeAt(frame_number))
                        THEN Append(performance_segments,
                                    <<performance_start_time,
                                      EndTimeAt(frame_number)>>)
                        ELSE performance_segments
                 /\ performance_start_time' = 0
            ELSE UNCHANGED <<stage_status, performance_start_time,
                             performance_segments>>
       /\ IF quit
            THEN dpc' = "closing" /\ UNCHANGED frame_number
            ELSE dpc' = "frames" /\ frame_number' = frame_number + 1
  /\ UNCHANGED <<dconfig, detected>>
  /\ UNCHANGED <<uvars, cvars, pvars, tvars, kvars, wvars>>

\* lines 40-43: the loop ends at max_frames or when cap.read() fails
EndOfStream ==
  /\ dpc = "frames"
  /\ ~BelowMaxFrames \/ frame_number >= videoLen
  /\ dpc' = "closing"
  /\ UNCHANGED <<dconfig, frame_number, stage_status, performance_start_time,
                 performance_segments, current_center_ids, detected,
                 tracked_objects, occupied>>
  /\ UNCHANGED <<uvars, cvars, pvars, tvars, kvars, wvars>>

\* lines 94-105: an interval still open is closed, and the list returned
CloseAndReturn ==
  /\ dpc = "closing"
  /\ performance_segments' =
       IF /\ stage_status = "PERFORMING"
          /\ LongEnough(performance_start_time, EndTimeAt(frame_number))
         THEN Append(performance_segments,
                     <<performance_start_time, EndTimeAt(frame_number)>>)
         ELSE performance_segments
  /\ detected' = SortedByStart(performance_segments')
  /\ dpc' = "done"
  /\ UNCHANGED <<dconfig, frame_number, stage_status, performance_start_time,
                 current_center_ids, tracked_objects, occupied>>
  /\ UNCHANGED <<uvars, cvars, pvars, tvars, kvars, wvars>>

InitDetect ==
  /\ videoLen \in 0..MaxFrames
  /\ width \in {20}
  /\ fps \in {1, 2}
  /\ min_duration_seconds \in 0..MaxSeconds
  /\ max_seconds_to_process \in 0..MaxSeconds
  /\ show_video \in BOOLEAN
  /\ left_zone_end_percent \in {15}
  /\ center_zone_width_percent \in {70}
  /\ dpc = "start"
  /\ frame_number = 0
  /\ stage_status = "EMPTY"
  /\ performance_start_time = 0
  /\ performance_segments = <<>>
  /\ current_center_ids = {}
  /\ detected = <<>>
  /\ tracked_objects = {}
  /\ occupied = <<>>

NextDetect ==
  \/ OpenVideo
  \/ ProcessFrame
  \/ EndOfStream
  \/ CloseAndReturn

\* --------------------------------------------------- detector: claims
\* C5: the list detect_performances returns is ordered by start time and
\* its intervals do not overlap: each interval starts no earlier than the
\* one before it ends.
C5_OrderedNonOverlapping ==
  \A i \in 1..(Len(detected) - 1) :
    /\ detected[i][1] <= detected[i + 1][1]
    /\ detected[i][2] <= detected[i + 1][1]

\* two intervals have been returned
C5_Witness == dpc = "done" /\ Len(detected) >= 2

\* C6: no interval detect_performances emits is shorter than
\* min_duration_seconds, whether the zone emptying or the end of the
\* stream closed it.
C6_NoShortInterval ==
  /\ \A i \in 1..Len(performance_segments) :
       performance_segments[i][2] - performance_segments[i][1]
         >= min_duration_seconds * fps
  /\ \A i \in 1..Len(detected) :
       detected[i][2] - detected[i][1] >= min_duration_seconds * fps

\* an interval closed by the zone emptying and one closed by the end of
\* the stream have been returned
C6_Witness ==
  /\ dpc = "done"
  /\ min_duration_seconds = 1
  /\ fps = 2
  /\ detected = <<<<0, 2>>, <<3, 5>>>>
  /\ stage_status = "PERFORMING"

\* C21: no interval detect_performances emits has a zero or a negative
\* duration, for every frame sequence and every min_duration_seconds >= 0,
\* 0 included, whether the zone emptying or the end of the stream closed it.
C21_NoEmptyInterval ==
  /\ \A i \in 1..Len(performance_segments) :
       performance_segments[i][2] > performance_segments[i][1]
  /\ \A i \in 1..Len(detected) : detected[i][2] > detected[i][1]

\* lines 40-43 and 94-98: the loop was left at the end of the stream or at
\* max_frames, every frame read having been counted, with an interval open
\* that line 95 has closed
ClosedAtStreamEnd ==
  /\ dpc = "done"
  /\ stage_status = "PERFORMING"
  /\ frame_number = Len(occupied)

\* the interval that was open is in the list returned, with this end
EmittedWithEnd(end_time) ==
  /\ performance_segments # <<>>
  /\ performance_segments[Len(performance_segments)]
       = <<performance_start_time, end_time>>
  /\ \E i \in 1..Len(detected) :
       detected[i] = <<performance_start_time, end_time>>

\* the interval that was open is not in the list returned
NotEmitted ==
  /\ \A i \in 1..Len(performance_segments) :
       performance_segments[i][1] # performance_start_time
  /\ \A i \in 1..Len(detected) : detected[i][1] # performance_start_time

\* C26 as stated: an interval open when the stream ends (or max_frames is
\* hit) is closed with the timestamp of the final processed frame, the
\* frame of index Len(occupied) - 1, as its end, and emitted if it is long
\* enough with that end.
C26_Orig ==
  ClosedAtStreamEnd =>
    IF (Len(occupied) - 1) - performance_start_time
         >= min_duration_seconds * fps
      THEN EmittedWithEnd(Len(occupied) - 1)
      ELSE NotEmitted

\* C26: an interval open when the stream ends (or max_frames is hit) is
\* closed with the number of frames read divided by the frame rate as its
\* end, which is one frame period after the timestamp of the final
\* processed frame, and emitted if it is long enough with that end.
C26_EndIsFrameCount ==
  ClosedAtStreamEnd =>
    IF Len(occupied) - performance_start_time >= min_duration_seconds * fps
      THEN EmittedWithEnd(Len(occupied))
      ELSE NotEmitted

\* a stream of four frames has ended with the interval begun at frame 1
\* still open
C26_Witness ==
  /\ ClosedAtStreamEnd
  /\ occupied = <<FALSE, TRUE, TRUE, TRUE>>
  /\ min_duration_seconds = 1
  /\ fps = 2
  /\ detected = <<<<1, 4>>>>

\* the frame of this index has been read (frames are counted from 0)
Read(frame) == 0 <= frame /\ frame < Len(occupied)

\* the interval starts at a frame whose center set is non-empty and which
\* is the first frame or follows a frame whose center set is empty, and
\* the center set is non-empty at every frame read from there up to the
\* interval's end
StartsAtTransition(seg) ==
  /\ Read(seg[1])
  /\ occupied[seg[1] + 1]
  /\ seg[1] > 0 => ~occupied[seg[1]]
  /\ \A frame \in seg[1]..(seg[2] - 1) : Read(frame) /\ occupied[frame + 1]

\* the interval ends at a later frame, and the center set is empty there
EndsAtTransition(seg) ==
  /\ seg[2] > seg[1]
  /\ Read(seg[2])
  /\ ~occupied[seg[2] + 1]

\* C27 as stated: every interval emitted starts at the frame of an EMPTY to
\* PERFORMING transition and ends at the frame of the PERFORMING to EMPTY
\* transition that follows it.
C27_Orig ==
  \A i \in 1..Len(detected) :
    StartsAtTransition(detected[i]) /\ EndsAtTransition(detected[i])

\* C27: the state is PERFORMING exactly when the center set of the frame
\* read last is non-empty; the start recorded is the index of the first
\* frame of the run of non-empty frames; every interval emitted starts at
\* such a frame, and ends at the first later frame whose center set is
\* empty, but for the interval closed when the loop is left, which ends at
\* frame_number.
C27_TransitionTimestamps ==
  /\ occupied # <<>> =>
       (stage_status = "PERFORMING" <=> occupied[Len(occupied)])
  /\ stage_status = "PERFORMING" =>
       StartsAtTransition(<<performance_start_time, Len(occupied)>>)
  /\ \A i \in 1..Len(performance_segments) :
       /\ StartsAtTransition(performance_segments[i])
       /\ \/ EndsAtTransition(performance_segments[i])
          \/ /\ i = Len(performance_segments)
             /\ dpc = "done"
             /\ stage_status = "PERFORMING"
             /\ performance_segments[i]
                  = <<performance_start_time, frame_number>>
  /\ \A i \in 1..Len(detected) :
       \E j \in 1..Len(performance_segments) :
         detected[i] = performance_segments[j]

\* the zone was entered at frame 1 and left at frame 3, and entered again
\* at frame 4, the last of the stream
C27_Witness ==
  /\ dpc = "done"
  /\ min_duration_seconds = 0
  /\ occupied = <<FALSE, TRUE, TRUE, FALSE, TRUE>>
  /\ detected = <<<<1, 3>>, <<4, 5>>>>

\* lines 29-33: the box's center is on LEFT_ZONE_END or on CENTER_ZONE_END
OnZoneEnd(box) ==
  \/ 100 * (box.x1 + box.x2) = 2 * width * left_zone_end_percent
  \/ 100 * (box.x1 + box.x2)
       = 2 * width * (left_zone_end_percent + center_zone_width_percent)

\* a frame has just been read in which every entity is on an end of the
\* zone
BoundaryFrame ==
  /\ Len(occupied') = Len(occupied) + 1
  /\ tracked_objects' # {}
  /\ \A box \in tracked_objects' : OnZoneEnd(box)

\* C28: an entity is in current_center_ids only if its center is strictly
\* right of width * left and strictly left of width * (left + center); a
\* frame whose only entities are on the ends of the zone has an empty
\* center set and takes the detector out of EMPTY in no case.
C28_StrictZone ==
  /\ [](\A id \in current_center_ids :
          \E box \in tracked_objects :
            /\ box.id = id
            /\ 2 * width * left_zone_end_percent < 100 * (box.x1 + box.x2)
            /\ 100 * (box.x1 + box.x2)
                 < 2 * width * (left_zone_end_percent
                                  + center_zone_width_percent))
  /\ [][BoundaryFrame =>
          /\ current_center_ids' = {}
          /\ ~occupied'[Len(occupied')]
          /\ stage_status = "EMPTY" => stage_status' = "EMPTY"]_vars

\* the first frame held one entity on each end of the zone and nothing
\* else, and the detector is still EMPTY
C28_Witness ==
  /\ dpc = "frames"
  /\ Len(occupied) = 1
  /\ tracked_objects = {box \in Boxes : OnZoneEnd(box)}
  /\ Cardinality(tracked_objects) = 2
  /\ stage_status = "EMPTY"

\* the entities of the frame read last whose center is strictly inside the
\* zone
InsideZone ==
  {box \in tracked_objects :
     /\ 2 * width * left_zone_end_percent < 100 * (box.x1 + box.x2)
     /\ 100 * (box.x1 + box.x2)
          < 2 * width * (left_zone_end_percent + center_zone_width_percent)}

\* C33: once a frame has been processed, the state is PERFORMING exactly
\* when the center set of the frame processed last is non-empty; the list
\* of intervals changes only by one interval appended, either in a frame
\* step that takes the state from PERFORMING to EMPTY, or when the loop has
\* been left with the state PERFORMING.
C33_StateFollowsCenterSet ==
  /\ [](occupied # <<>> =>
          (stage_status = "PERFORMING" <=> InsideZone # {}))
  /\ [][performance_segments' # performance_segments =>
          /\ Len(performance_segments') = Len(performance_segments) + 1
          /\ IsPrefix(performance_segments, performance_segments')
          /\ stage_status = "PERFORMING"
          /\ \/ /\ Len(occupied') = Len(occupied) + 1
                /\ stage_status' = "EMPTY"
             \/ /\ dpc = "closing"
                /\ dpc' = "done"
                /\ stage_status' = "PERFORMING"]_vars

\* an interval has been appended on the zone emptying and the state has
\* gone back to PERFORMING since
C33_Witness ==
  /\ dpc = "frames"
  /\ occupied = <<TRUE, FALSE, TRUE>>
  /\ performance_segments = <<<<0, 1>>>>
  /\ stage_status = "PERFORMING"

\* ================================================ get_consensus_offset
\* A float is held as the fraction num / den; den = 0 is None.
None == [num |-> 0, den |-> 0]
Whole(n) == [num |-> n, den |-> 1]
SameValue(a, b) ==
  IF a.den = 0 \/ b.den = 0 THEN a.den = b.den
  ELSE a.num * b.den = b.num * a.den

Abs(x) == IF x < 0 THEN -x ELSE x

RECURSIVE Sum(_)
Sum(s) == IF s = <<>> THEN 0 ELSE Head(s) + Sum(Tail(s))

\* np.mean
Mean(s) == [num |-> Sum(s), den |-> Len(s)]

\* np.median
Median(s) ==
  IF Len(s) % 2 = 1 THEN Whole(s[(Len(s) + 1) \div 2])
  ELSE [num |-> s[Len(s) \div 2] + s[Len(s) \div 2 + 1], den |-> 2]

RECURSIVE InsertOffset(_, _)
InsertOffset(x, sorted) ==
  IF sorted = <<>> THEN <<x>>
  ELSE IF x < Head(sorted) THEN <<x>> \o sorted
  ELSE <<Head(sorted)>> \o InsertOffset(x, Tail(sorted))

\* the samples in the order they came in
AsGiven(offsets) == offsets

RECURSIVE SortedOffsets(_)
\* line 22: sorted(offsets)
SortedOffsets(offsets) ==
  IF offsets = <<>> THEN <<>>
  ELSE InsertOffset(Head(offsets), SortedOffsets(Tail(offsets)))

\* only the samples from current_offset up to tolerance above it
ClusterAbove(sorted_offsets, current_offset, tol) ==
  SelectSeq(sorted_offsets,
            LAMBDA o : o >= current_offset /\ o - current_offset <= tol)

\* line 26: the samples within tolerance of current_offset
CurrentCluster(sorted_offsets, current_offset, tol) ==
  SelectSeq(sorted_offsets, LAMBDA o : Abs(o - current_offset) <= tol)

RECURSIVE BestCluster(_, _, _, _)
\* lines 24-28, from index i on
BestCluster(sorted_offsets, i, tol, best_cluster) ==
  IF i > Len(sorted_offsets) THEN best_cluster
  ELSE LET current_cluster ==
             CurrentCluster(sorted_offsets, sorted_offsets[i], tol)
       IN BestCluster(sorted_offsets, i + 1, tol,
                      IF Len(current_cluster) > Len(best_cluster)
                        THEN current_cluster ELSE best_cluster)

\* the mean of all the samples, whatever the clusters
MeanOfAll(offsets, tol) == IF offsets = <<>> THEN None ELSE Mean(offsets)

get_consensus_offset(offsets, tol) ==
  IF offsets = <<>> THEN None
  ELSE LET sorted_offsets == SortedOffsets(offsets)
           best_cluster == BestCluster(sorted_offsets, 1, tol, <<>>)
       IN IF best_cluster = <<>> THEN Median(sorted_offsets)
          ELSE Mean(best_cluster)

Offsets == 0..MaxOffset
Tolerances == {1, 2}

\* one more sample, and get_consensus_offset on the longer list
AppendSample ==
  /\ Len(samples) < MaxSamples
  /\ \E x \in Offsets : samples' = Append(samples, x)
  /\ previous' = consensus
  /\ consensus' = get_consensus_offset(samples', tolerance)
  /\ UNCHANGED tolerance
  /\ UNCHANGED <<uvars, dvars, pvars, tvars, kvars, wvars>>

InitConsensus ==
  /\ samples = <<>>
  /\ tolerance \in Tolerances
  /\ consensus = None
  /\ previous = None

NextConsensus == AppendSample

\* -------------------------------------------------- consensus: claims
\* two of the samples are within tol of each other
HasPair(s, tol) ==
  \E i, j \in 1..Len(s) : i # j /\ Abs(s[i] - s[j]) <= tol

\* x is more than tol away from every sample of s
IsOutlier(x, s, tol) == \A i \in 1..Len(s) : Abs(s[i] - x) > tol

\* C9: when the largest cluster of a list has at least two samples, one
\* more sample that is more than tolerance away from all of them leaves
\* the value get_consensus_offset returns unchanged.
C9_OutlierInsensitive ==
  LET n == Len(samples)
      before == SubSeq(samples, 1, n - 1)
  IN (n >= 1 /\ HasPair(before, tolerance)
        /\ IsOutlier(samples[n], before, tolerance))
       => SameValue(consensus, previous)

\* the spec's example, ten times smaller: 2, 3, 1 and the outlier 5
C9_Witness ==
  /\ samples = <<2, 3, 1, 5>>
  /\ tolerance = 1
  /\ previous = [num |-> 6, den |-> 3]
  /\ consensus = [num |-> 6, den |-> 3]

RECURSIVE SumAt(_, _)
\* the sum of the samples of s at the indexes of group
SumAt(s, group) ==
  IF group = {} THEN 0
  ELSE LET i == CHOOSE i \in group : TRUE
       IN s[i] + SumAt(s, group \ {i})

\* np.mean of those samples
MeanAt(s, group) == [num |-> SumAt(s, group), den |-> Cardinality(group)]

\* every two samples of the group differ by at most tol
PairwiseWithin(s, group, tol) ==
  \A i, j \in group : Abs(s[i] - s[j]) <= tol

\* the indexes of the samples within tol of the sample at index c
AroundSample(s, c, tol) == {i \in 1..Len(s) : Abs(s[i] - s[c]) <= tol}

\* C25 as stated: what get_consensus_offset returns is the mean of a
\* largest group of samples whose pairwise differences are all within
\* tolerance.
C25_Orig ==
  samples # <<>> =>
    \E group \in SUBSET (1..Len(samples)) :
      /\ group # {}
      /\ PairwiseWithin(samples, group, tolerance)
      /\ \A other \in SUBSET (1..Len(samples)) :
           PairwiseWithin(samples, other, tolerance)
             => Cardinality(other) <= Cardinality(group)
      /\ SameValue(consensus, MeanAt(samples, group))

\* C25: what get_consensus_offset returns is the mean of a largest group
\* among those made of all the samples within tolerance of one sample; two
\* samples of the group differ by at most twice the tolerance.
C25_LargestAroundASample ==
  samples # <<>> =>
    \E c \in 1..Len(samples) :
      LET group == AroundSample(samples, c, tolerance) IN
      /\ \A d \in 1..Len(samples) :
           Cardinality(AroundSample(samples, d, tolerance))
             <= Cardinality(group)
      /\ PairwiseWithin(samples, group, 2 * tolerance)
      /\ SameValue(consensus, MeanAt(samples, group))

\* 0, 1 and 2 with tolerance 1: the group around 1 holds 0 and 2, which
\* differ by 2, and its mean is returned
C25_Witness ==
  /\ samples = <<0, 1, 2>>
  /\ tolerance = 1
  /\ consensus = [num |-> 3, den |-> 3]

\* the centers whose cluster is as large as any: the indexes c of the
\* sorted list with the most samples within tol of sorted[c]
LargestCenters(sorted, tol) ==
  {c \in 1..Len(sorted) :
     \A d \in 1..Len(sorted) :
       Cardinality(AroundSample(sorted, d, tol))
         <= Cardinality(AroundSample(sorted, c, tol))}

\* C38: when several clusters are of the largest size,
\* get_consensus_offset returns the mean of the one around the smallest
\* such center; and what it returns for a list is what it returns for the
\* same samples in ascending order, so the order they came in does not
\* count.
C38_FirstLargestInAscendingOrder ==
  samples # <<>> =>
    LET sorted == SortedOffsets(samples)
        centers == LargestCenters(sorted, tolerance)
        first == CHOOSE c \in centers : \A d \in centers : c <= d
    IN /\ \A i \in 1..(Len(sorted) - 1) : sorted[i] <= sorted[i + 1]
       /\ consensus = MeanAt(sorted, AroundSample(sorted, first, tolerance))
       /\ consensus = get_consensus_offset(sorted, tolerance)

\* 5 came before 0 and 3: the clusters around 0, 3 and 5 hold one sample
\* each, and 0 is returned
C38_Witness ==
  /\ samples = <<5, 0, 3>>
  /\ tolerance = 1
  /\ consensus = [num |-> 0, den |-> 1]

\* ================================================= concatenate_videos
\* shutil.copy2 returns or raises; a transcoder run exits with 0, exits
\* with another code, or subprocess.run raises
CopyAnswers == {"ok", "raises"}
RunAnswers == {"ok", "nonzero", "raises"}

ConcatEnvs ==
  [copy : CopyAnswers, filter : RunAnswers, demuxer : RunAnswers]

\* the stream-copy concat is not run
NoFallback(answer) == [value |-> "False", ran |-> <<>>]

\* lines 81-102: _concatenate_with_demuxer returns whether the transcoder
\* exited with 0; what it raises is caught at line 77 of its caller
ConcatenateWithDemuxer(answer) ==
  [value |-> IF answer = "ok" THEN "True" ELSE "False",
   ran |-> <<"demuxer">>]

\* lines 23-79: the value returned ("raised" when shutil.copy2's exception
\* leaves the function) and the programs run, in order
concatenate_videos(paths, env) ==
  IF paths = <<>> THEN [value |-> "False", ran |-> <<>>]
  ELSE IF Len(paths) = 1
    THEN [value |-> IF env.copy = "ok" THEN "True" ELSE "raised",
          ran |-> <<"copy">>]
  ELSE IF env.filter = "ok" THEN [value |-> "True", ran |-> <<"filter">>]
  ELSE IF env.filter = "raises"
    THEN [value |-> "False", ran |-> <<"filter">>]
  ELSE LET fallback == ConcatenateWithDemuxer(env.demuxer) IN
       [value |-> fallback.value, ran |-> <<"filter">> \o fallback.ran]

NotCalled == [value |-> "not called", ran |-> <<>>]

\* concatenate_videos is called and returns
CallConcatenate ==
  /\ concat_return = NotCalled
  /\ concat_return' = concatenate_videos(concat_paths, concat_env)
  /\ UNCHANGED <<concat_paths, concat_env>>
  /\ UNCHANGED <<uvars, dvars, cvars, pvars, tvars, wvars>>

InitConcat ==
  /\ concat_paths \in SeqsOver({"a", "b"}, MaxInputs)
  /\ concat_env \in ConcatEnvs
  /\ concat_return = NotCalled

NextConcat == CallConcatenate

\* ----------------------------------------- concatenate_videos: claims
\* the call has returned or raised
Returns == concat_return # NotCalled

\* the call ran the program
Ran(program) == \E i \in DOMAIN concat_return.ran : concat_return.ran[i] = program

FilterSucceeded == Ran("filter") /\ concat_env.filter = "ok"
FallbackSucceeded == Ran("demuxer") /\ concat_env.demuxer = "ok"

\* C32 as stated: the filter concat is always tried first, the stream-copy
\* concat only after the filter concat exited non-zero, and True is
\* returned exactly when one of the two succeeded.
C32_Orig ==
  Returns =>
    /\ Ran("demuxer") => (Ran("filter") /\ concat_env.filter = "nonzero")
    /\ concat_return.value = "True" <=> (FilterSucceeded \/ FallbackSucceeded)
    /\ concat_paths = <<>> => concat_return.value = "False"

\* C32, amended: for a list of two files or more, concatenate_videos runs
\* the filter concat first and the stream-copy concat only if the filter
\* concat exited non-zero, and returns True exactly when the filter concat
\* succeeded or it exited non-zero and the fallback succeeded, False
\* otherwise; for a list of one file it runs no concat at all: it copies the
\* file and returns True (the copy's exception leaves the function); for an
\* empty list it returns False and runs nothing.
C32_FilterThenFallback ==
  Returns =>
    /\ concat_paths = <<>> =>
         /\ concat_return.value = "False"
         /\ concat_return.ran = <<>>
    /\ Len(concat_paths) = 1 =>
         /\ concat_return.ran = <<"copy">>
         /\ concat_return.value = "True" <=> concat_env.copy = "ok"
         /\ concat_return.value = "raised" <=> concat_env.copy = "raises"
    /\ Len(concat_paths) >= 2 =>
         /\ concat_return.ran[1] = "filter"
         /\ Ran("demuxer") <=> concat_env.filter = "nonzero"
         /\ Ran("demuxer") => concat_return.ran = <<"filter", "demuxer">>
         /\ ~Ran("copy")
         /\ concat_return.value \in {"True", "False"}
         /\ concat_return.value = "True" <=>
              (FilterSucceeded \/ FallbackSucceeded)

\* three files: the filter concat exited non-zero, the fallback succeeded
\* and True was returned
C32_Witness ==
  /\ Len(concat_paths) = 3
  /\ concat_env.filter = "nonzero"
  /\ concat_env.demuxer = "ok"
  /\ concat_return = [value |-> "True", ran |-> <<"filter", "demuxer">>]

\* ======================================================= process_pair
\* Times are whole seconds; an interval is <<start, end>>.
DEFAULT_TOLERANCE == 1

Intervals == {<<s, e>> : s \in 0..MaxTime, e \in 0..MaxTime} \ 
             {<<s, e>> \in (0..MaxTime) \X (0..MaxTime) : s >= e}

\* the lists detect_performances may return: ordered, not overlapping
SegmentLists ==
  {l \in SeqsOver(Intervals, MaxSegments) :
     \A i \in 1..(Len(l) - 1) : l[i][2] <= l[i + 1][1]}

\* sync_result['offset_seconds'] of a successful correlation
RawOffsets == {0, 5}

\* what find_audio_offset returns: a result with a shift, or nothing
SyncResults ==
  {[found |-> TRUE, offset_seconds |-> raw] : raw \in RawOffsets}
    \cup {[found |-> FALSE, offset_seconds |-> 0]}

\* the shift of the correlation peak as it is
RawSample(offset_seconds, start) == offset_seconds

\* line 168: sync_result['offset_seconds'] - start
Sample(offset_seconds, start) == offset_seconds - start

\* the secondary track is kept although there is no sample
MicKept(offsets, mic) == mic

\* lines 174-176: config['mic_audio_path'] after the alignment loop
MicAfterSync(offsets, mic) == IF offsets = <<>> THEN FALSE ELSE mic

\* lines 148-150: what an empty list of intervals makes process_pair do;
\* TRUE stands for raising to the caller, FALSE for a plain return
RaisesOnNoSegments(failed) == FALSE

\* an empty list does not end the processing
AfterDetectNoReturn(segs, mic) == IF mic THEN "sync" ELSE "encode"

\* lines 148-155: the return on an empty list, else the alignment step if
\* there is a mic track and the encoding loop if there is none
AfterDetect(segs, mic) ==
  IF segs = <<>> THEN "done"
  ELSE IF mic THEN "sync" ELSE "encode"

\* the steps go on with the last input
LastInput(value, paths) ==
  IF value = "True" THEN "concatenated_input" ELSE paths[Len(paths)]

\* lines 109-115: the file the steps read: the concatenated file in temp_dir
\* when concatenate_videos returned True, else the first input
InputAfterConcat(value, paths) ==
  IF value = "True" THEN "concatenated_input" ELSE paths[1]

\* lines 105-115: several inputs are concatenated, one is taken as it is
ConcatenateInputs ==
  /\ ppc = "concat"
  /\ \E env \in ConcatEnvs :
       LET r == IF Len(video_paths) > 1
                THEN concatenate_videos(video_paths, env)
                ELSE NotCalled
       IN /\ concat_value' = r.value
          /\ video_path' = InputAfterConcat(r.value, video_paths)
  /\ ppc' = "detect"
  /\ UNCHANGED <<audio_path, use_gpu, segments, mic_audio_path, all_offsets,
                 sync_results, global_offset, seg_i, commands, video_paths,
                 tracker_failed, raised, probes, running, outputs>>
  /\ UNCHANGED <<uvars, dvars, cvars, tvars, kvars, wvars>>

\* lines 145-151: detection, and the return on an empty list;
\* detect_performances answers a tracker it cannot initialise with []
\* (detect_performances.py lines 21-26)
DetectSegments ==
  /\ ppc = "detect"
  /\ \E tracker_ok \in BOOLEAN, l \in SegmentLists :
       /\ ~tracker_ok => l = <<>>
       /\ tracker_failed' = ~tracker_ok
       /\ segments' = l
  /\ ppc' = AfterDetect(segments', mic_audio_path)
  /\ raised' = (segments' = <<>> /\ RaisesOnNoSegments(tracker_failed'))
  /\ UNCHANGED <<audio_path, use_gpu, mic_audio_path, all_offsets,
                 sync_results, global_offset, seg_i, commands, video_paths,
                 concat_value, video_path, probes, running, outputs>>
  /\ UNCHANGED <<uvars, dvars, cvars, tvars, kvars, wvars>>

\* lines 161-172: one interval of the alignment loop; find_audio_offset
\* returns a result or nothing
SyncSegment ==
  /\ ppc = "sync"
  /\ seg_i <= Len(segments)
  /\ \E sync_result \in SyncResults :
       /\ sync_results' = Append(sync_results, sync_result)
       /\ all_offsets' =
            IF sync_result.found
            THEN Append(all_offsets,
                        Sample(sync_result.offset_seconds, segments[seg_i][1]))
            ELSE all_offsets
  /\ seg_i' = seg_i + 1
  /\ UNCHANGED <<ppc, audio_path, use_gpu, segments, mic_audio_path,
                 global_offset, commands, video_paths, concat_value,
                 video_path, tracker_failed, raised, probes, running, outputs>>
  /\ UNCHANGED <<uvars, dvars, cvars, tvars, kvars, wvars>>

\* lines 174-179: after the alignment loop
EndSync ==
  /\ ppc = "sync"
  /\ seg_i > Len(segments)
  /\ mic_audio_path' = MicAfterSync(all_offsets, mic_audio_path)
  /\ global_offset' =
       IF all_offsets = <<>> THEN global_offset
       ELSE get_consensus_offset(all_offsets, DEFAULT_TOLERANCE)
  /\ ppc' = "encode"
  /\ seg_i' = 1
  /\ UNCHANGED <<audio_path, use_gpu, segments, all_offsets, sync_results,
                 commands, video_paths, concat_value, video_path,
                 tracker_failed, raised, probes, running, outputs>>
  /\ UNCHANGED <<uvars, dvars, cvars, tvars, kvars, wvars>>

\* mic_start = start_time + global_offset
MicStart(start_time, offset) ==
  [num |-> start_time * offset.den + offset.num, den |-> offset.den]

\* the output file named after the recording alone
OutputNameOfBase(paths, i) == <<paths[1], 1>>

\* lines 101 and 184-185: the output file of segment i, as the base name of
\* the first input and the ordinal
OutputName(paths, i) == <<paths[1], i>>

\* the secondary track is sought to mic_start whatever its sign
MicSeekAlways(mic, mic_start) == IF mic THEN mic_start ELSE None

\* lines 198-217: the position the secondary track is sought to, None when
\* the secondary track is no input of the command
MicSeek(mic, mic_start) ==
  IF mic /\ mic_start.num >= 0 THEN mic_start ELSE None

\* lines 183-217: the command of segment i
Command(i, vcodec) ==
  LET start_time == segments[i][1]
      end_time == segments[i][2]
      mic_start == MicStart(start_time, global_offset)
  IN [ss |-> start_time, t |-> end_time - start_time,
      mic_ss |-> MicSeek(mic_audio_path, mic_start),
      vcodec |-> vcodec, out |-> OutputName(video_paths, i),
      input |-> video_path]

\* lines 193 and video_utils.py lines 104-110: the codec arguments of one
\* segment; nvidia is what the probe of get_gpu_args finds
GpuArgs(gpu, nvidia) == IF gpu /\ nvidia THEN "h264_nvenc" ELSE "libx264"

\* the loop goes on without waiting for the transcoder
NoWait == "encode"

\* lines 58-73: run_ffmpeg_with_progress reads the transcoder's stderr to
\* its end and waits for it
AfterPopen == "transcoding"

\* the run ends at the first transcoder failure
AbortOnFailure(ok) == IF ok THEN "encode" ELSE "done"

\* line 219: the value run_ffmpeg_with_progress returns is not looked at
AfterTranscoder(ok) == "encode"

\* what the transcoder, run with -y, leaves at its output path: the whole
\* file after exit code 0; after another exit code the file that was there
\* (it failed before it opened the output) or a partial one
TranscoderLeaves(old, exit) ==
  IF exit = 0 THEN {"whole"} ELSE {old, "partial"}

\* lines 74-76: the error line printed for a non-zero exit code
ErrorPrinted(exit) == exit # 0

\* lines 182-217 and 37-54: the command of the next interval is built and
\* the transcoder started
StartTranscoder ==
  /\ ppc = "encode"
  /\ seg_i <= Len(segments)
  /\ \E nvidia \in BOOLEAN :
       /\ nvidia => use_gpu
       /\ commands' =
            Append(commands,
                   [cmd |-> Command(seg_i, GpuArgs(use_gpu, nvidia)),
                    exit |-> -1, reported |-> FALSE])
  /\ probes' = IF use_gpu THEN probes + 1 ELSE probes
  /\ running' = running + 1
  /\ ppc' = AfterPopen
  /\ UNCHANGED <<audio_path, use_gpu, segments, mic_audio_path, all_offsets,
                 sync_results, global_offset, seg_i, video_paths,
                 concat_value, video_path, tracker_failed, raised, outputs>>
  /\ UNCHANGED <<uvars, dvars, cvars, tvars, kvars, wvars>>

\* lines 58-77 and 219: the transcoder exits, and the loop goes on
TranscoderExits ==
  /\ ppc = "transcoding"
  /\ \E exit \in {0, 1} :
       /\ commands' = [commands EXCEPT ![seg_i].exit = exit,
                                       ![seg_i].reported = ErrorPrinted(exit)]
       /\ \E file \in TranscoderLeaves(outputs[seg_i], exit) :
            outputs' = [outputs EXCEPT ![seg_i] = file]
       /\ ppc' = AfterTranscoder(exit = 0)
  /\ running' = running - 1
  /\ seg_i' = seg_i + 1
  /\ UNCHANGED <<audio_path, use_gpu, segments, mic_audio_path, all_offsets,
                 sync_results, global_offset, video_paths, concat_value,
                 video_path, tracker_failed, raised, probes>>
  /\ UNCHANGED <<uvars, dvars, cvars, tvars, kvars, wvars>>

\* the encoding loop is over: process_pair returns
EndEncode ==
  /\ ppc = "encode"
  /\ seg_i > Len(segments)
  /\ ppc' = "done"
  /\ UNCHANGED <<audio_path, use_gpu, segments, mic_audio_path, all_offsets,
                 sync_results, global_offset, seg_i, commands, video_paths,
                 concat_value, video_path, tracker_failed, raised, probes,
                 running, outputs>>
  /\ UNCHANGED <<uvars, dvars, cvars, tvars, kvars, wvars>>

\* the video_paths arguments: one file, or two to be concatenated
InputLists == {<<"a">>, <<"b", "a">>}

\* the output directory before the run: empty, or holding the files of an
\* earlier run on the same recording
OutputDirs == {[i \in 1..MaxSegments |-> "absent"],
               [i \in 1..MaxSegments |-> "old"]}

InitPair ==
  /\ ppc = "concat"
  /\ concat_value = NotCalled.value
  /\ video_path = ""
  /\ audio_path \in BOOLEAN
  /\ use_gpu \in BOOLEAN
  /\ segments = <<>>
  /\ mic_audio_path = audio_path
  /\ all_offsets = <<>>
  /\ global_offset = Whole(0)
  /\ seg_i = 1
  /\ commands = <<>>
  /\ video_paths \in InputLists
  /\ tracker_failed = FALSE
  /\ raised = FALSE
  /\ probes = 0
  /\ running = 0
  /\ outputs \in OutputDirs
  /\ sync_results = <<>>

NextPair ==
  \/ ConcatenateInputs
  \/ DetectSegments
  \/ SyncSegment
  \/ EndSync
  \/ StartTranscoder
  \/ TranscoderExits
  \/ EndEncode

\* the encoding stage, or past it
Encoding == ppc \in {"encode", "transcoding", "done"}

\* ------------------------------------------------ process_pair: claims
\* C10: when the alignment of a run with a secondary track yields no
\* sample, process_pair goes on to encode every interval, and no command
\* of the run has the secondary track as an input.
C10_NoSampleNoMic ==
  (audio_path /\ all_offsets = <<>> /\ Encoding) =>
    /\ \A k \in 1..Len(commands) : commands[k].cmd.mic_ss = None
    /\ ppc = "done" => Len(commands) = Len(segments)

\* a run with a secondary track and two intervals has ended with no sample
C10_Witness ==
  /\ ppc = "done"
  /\ audio_path
  /\ all_offsets = <<>>
  /\ Len(segments) = 2
  /\ Len(commands) = 2

\* C11: in a run with a secondary track and a consensus offset, the command
\* of a segment whose mic_start = start + global_offset is negative has no
\* secondary input, the command of every other segment seeks the secondary
\* track to its mic_start, and no command seeks it to a negative position.
C11_PerSegmentFallback ==
  (mic_audio_path /\ all_offsets # <<>> /\ Encoding) =>
    \A k \in 1..Len(commands) :
      LET mic_start == MicStart(segments[k][1], global_offset)
          mic_ss == commands[k].cmd.mic_ss
      IN /\ mic_start.num < 0 => mic_ss = None
         /\ mic_start.num >= 0 =>
              mic_ss # None /\ SameValue(mic_ss, mic_start)
         /\ mic_ss # None => mic_ss.num >= 0

\* a run whose first segment fell back to the primary audio and whose
\* second segment was mixed
C11_Witness ==
  /\ ppc = "done"
  /\ mic_audio_path
  /\ Len(commands) = 2
  /\ MicStart(segments[1][1], global_offset).num < 0
  /\ commands[1].cmd.mic_ss = None
  /\ commands[2].cmd.mic_ss # None

\* C12: a non-zero exit of the transcoder does not end the run: the
\* transcoder is still started for every later segment, in segment order,
\* and an error line is printed for the failed one.
C12_FailureDoesNotAbort ==
  /\ ppc = "done" => Len(commands) = Len(segments)
  /\ \A k \in 1..Len(commands) :
       /\ commands[k].cmd.ss = segments[k][1]
       /\ commands[k].cmd.out[2] = k
       /\ commands[k].exit > 0 => commands[k].reported
  /\ (/\ commands # <<>>
      /\ commands[Len(commands)].exit > 0
      /\ Len(commands) < Len(segments)) => ppc = "encode"

\* the transcoder failed for the first of two segments and succeeded for
\* the second
C12_Witness ==
  /\ ppc = "done"
  /\ Len(commands) = 2
  /\ commands[1].exit = 1
  /\ commands[1].reported
  /\ commands[2].exit = 0

\* C13: after a run, no file exists at the output path of a segment whose
\* transcoder exited non-zero, whatever was at that path before the run.
C13_FailedOutputAbsent ==
  \A k \in 1..Len(commands) :
    commands[k].exit > 0 => outputs[k] = "absent"

\* C14: a run over n intervals starts the transcoder exactly n times; the
\* i-th command trims the primary source to the i-th interval's start and
\* length and writes to the path made of the first input's base name and i;
\* the output paths of a run differ from one another.
C14_OneCommandPerInterval ==
  /\ Len(commands) <= Len(segments)
  /\ ppc = "done" => Len(commands) = Len(segments)
  /\ \A k \in 1..Len(commands) :
       /\ commands[k].cmd.ss = segments[k][1]
       /\ commands[k].cmd.t = segments[k][2] - segments[k][1]
       /\ commands[k].cmd.out = <<video_paths[1], k>>
  /\ \A j, k \in 1..Len(commands) :
       j # k => commands[j].cmd.out # commands[k].cmd.out

\* a run on two concatenated inputs and two intervals has ended
C14_Witness ==
  /\ ppc = "done"
  /\ video_paths = <<"b", "a">>
  /\ Len(segments) = 2
  /\ Len(commands) = 2
  /\ commands[2].cmd.out = <<"b", 2>>

\* the stages a state may be in
StagesInOrder ==
  /\ ppc = "detect" => (segments = <<>> /\ all_offsets = <<>>)
  /\ ppc \in {"detect", "sync"} => (commands = <<>> /\ running = 0)
  /\ running <= 1

\* the stage a step belongs to
StepInStage ==
  /\ segments' # segments => ppc = "detect"
  /\ (seg_i' # seg_i /\ commands = <<>> /\ commands' = <<>>) =>
       (ppc = "sync" /\ segments # <<>>)
  /\ (all_offsets' # all_offsets \/ global_offset' # global_offset) =>
       (ppc = "sync" /\ segments # <<>> /\ commands = <<>>)
  /\ Len(commands') > Len(commands) =>
       (ppc = "encode" /\ running = 0 /\ running' = 1)

\* C15: the stages of a run follow one another: the intervals are detected
\* before any alignment step, every alignment step and the consensus come
\* before the first transcoder command, and a transcoder is started only
\* when none is running.
C15_StagesSequential == [](StagesInOrder) /\ [][StepInStage]_vars

\* a run with alignment and two transcoder commands has ended
C15_Witness ==
  /\ ppc = "done"
  /\ all_offsets # <<>>
  /\ Len(commands) = 2
  /\ running = 0

\* C18: within one run the hardware probe is made at most once and every
\* command has the same video codec.
C18_CodecChosenOncePerRun ==
  /\ probes <= 1
  /\ \A j, k \in 1..Len(commands) :
       commands[j].cmd.vcodec = commands[k].cmd.vcodec

\* C19: when the tracker cannot be initialised, process_pair gets no
\* interval, starts no transcoder, and ends by raising to its caller.
C19_TrackerFailurePropagates ==
  tracker_failed =>
    /\ segments = <<>>
    /\ commands = <<>>
    /\ ppc = "done"
    /\ raised

RECURSIVE ExpectedSamples(_, _)
\* for the results of the first intervals, in interval order: the shift less
\* the interval's start for each result there is, nothing for a missing one
ExpectedSamples(results, segs) ==
  IF results = <<>> THEN <<>>
  ELSE LET n == Len(results)
           earlier == ExpectedSamples(SubSeq(results, 1, n - 1), segs)
       IN IF results[n].found
          THEN Append(earlier, results[n].offset_seconds - segs[n][1])
          ELSE earlier

\* C31: in the alignment loop each interval adds at most one sample, the
\* shift find_audio_offset returned less the interval's start, and an
\* interval for which find_audio_offset returned nothing adds none: the
\* samples are those of the intervals with a result, in interval order.
C31_OneSamplePerCorrelatedInterval ==
  /\ [](/\ Len(sync_results) <= Len(segments)
        /\ all_offsets = ExpectedSamples(sync_results, segments)
        /\ Len(all_offsets)
             = Cardinality({i \in DOMAIN sync_results : sync_results[i].found}))
  /\ [][Len(all_offsets') \in {Len(all_offsets), Len(all_offsets) + 1}]_vars

\* of two intervals the first got no result and the second, which starts
\* after the beginning of the recording, got one
C31_Witness ==
  /\ Len(segments) = 2
  /\ Len(sync_results) = 2
  /\ ~sync_results[1].found
  /\ sync_results[2].found
  /\ segments[2][1] > 0
  /\ all_offsets = <<sync_results[2].offset_seconds - segments[2][1]>>

\* C24: when detection returns an empty list, process_pair returns at once
\* and raises nothing: no alignment step has run, no transcoder has been
\* started and the files at the output paths are as they were.
C24_EmptyDetectionEndsEarly ==
  (ppc \notin {"concat", "detect"} /\ segments = <<>>) =>
    /\ ppc = "done"
    /\ ~raised
    /\ all_offsets = <<>>
    /\ global_offset = Whole(0)
    /\ seg_i = 1
    /\ commands = <<>>
    /\ probes = 0
    /\ running = 0
    /\ outputs \in OutputDirs

\* detection has found nothing in a recording that has a mic track, its
\* tracker having worked
C24_Witness ==
  /\ ppc = "done"
  /\ segments = <<>>
  /\ ~tracker_failed
  /\ audio_path
  /\ commands = <<>>

\* C40: when process_pair is given several inputs and concatenate_videos
\* returns False (the filter concat and its fallback have failed), nothing
\* is raised and the run goes on to detection with the first input as the
\* file every step reads: each transcoder command takes it as its input, and
\* no other input is read.
C40_ConcatFailureUsesFirstInput ==
  /\ [](concat_value = "False" =>
         /\ Len(video_paths) > 1
         /\ ppc # "concat"
         /\ ~raised
         /\ video_path = video_paths[1]
         /\ \A k \in DOMAIN commands :
              commands[k].cmd.input = video_paths[1])
  /\ [][(ppc = "concat" /\ concat_value' = "False") => ppc' = "detect"]_vars
  /\ [][(ppc = "detect" /\ concat_value = "False" /\ segments' # <<>>) =>
           ppc' \in {"sync", "encode"}]_vars

\* the concatenation of two inputs has failed, and the run has ended after
\* encoding two segments of the first input
C40_Witness ==
  /\ concat_value = "False"
  /\ video_paths = <<"b", "a">>
  /\ ppc = "done"
  /\ Len(commands) = 2
  /\ commands[1].cmd.input = "b"
  /\ commands[2].cmd.input = "b"
  /\ commands[2].exit = 0

\* =================================================== specifications
ConcatParked ==
  /\ InitConcat
  /\ concat_paths = <<>>
  /\ concat_env = [copy |-> "ok", filter |-> "ok", demuxer |-> "ok"]
WorkflowParked == InitWorkflow
UploadParked == InitUpload /\ disk = Absent
TwoParked == InitTwo /\ state_file = Absent
DetectParked ==
  /\ InitDetect
  /\ videoLen = 0
  /\ fps = 1
  /\ min_duration_seconds = 0
  /\ max_seconds_to_process = 0
  /\ show_video = FALSE
ConsensusParked == InitConsensus /\ tolerance = 1
PairParked ==
  /\ InitPair
  /\ audio_path = FALSE
  /\ use_gpu = FALSE
  /\ video_paths = <<"a">>
  /\ outputs = [i \in 1..MaxSegments |-> "absent"]

\* one batch_upload run, with time passing
StartUpload ==
  InitUpload /\ DetectParked /\ ConsensusParked /\ PairParked /\ TwoParked
    /\ ConcatParked /\ WorkflowParked
SpecUpload == StartUpload /\ [][NextUpload]_vars

\* the same run, in which the process is not stopped, a sleep ends and an
\* upload_video call returns or raises: a step of the batch loop that can
\* be taken is taken in the end
SpecUploadFair == StartUpload /\ [][NextUpload]_vars /\ WF_vars(BatchStep)

\* batch_upload runs one after the other on one state file, each of which
\* may die at any point
StartRestart ==
  InitUpload /\ DetectParked /\ ConsensusParked /\ PairParked /\ TwoParked
    /\ ConcatParked /\ WorkflowParked
SpecRestart == StartRestart /\ [][NextRestart]_vars

\* detect_performances on one video
StartDetect ==
  InitDetect /\ UploadParked /\ ConsensusParked /\ PairParked /\ TwoParked
    /\ ConcatParked /\ WorkflowParked
SpecDetect == StartDetect /\ [][NextDetect]_vars

\* get_consensus_offset on lists of samples
StartConsensus ==
  InitConsensus /\ UploadParked /\ DetectParked /\ PairParked /\ TwoParked
    /\ ConcatParked /\ WorkflowParked
SpecConsensus == StartConsensus /\ [][NextConsensus]_vars

\* process_pair on one recording
StartPair ==
  InitPair /\ UploadParked /\ DetectParked /\ ConsensusParked /\ TwoParked
    /\ ConcatParked /\ WorkflowParked
SpecPair == StartPair /\ [][NextPair]_vars

\* two schedulers at once on one state file
StartTwo ==
  InitTwo /\ UploadParked /\ DetectParked /\ ConsensusParked /\ PairParked
    /\ ConcatParked /\ WorkflowParked
SpecTwoSchedulers == StartTwo /\ [][NextTwo]_vars

\* calls of concatenate_videos on lists of up to MaxInputs files
StartConcat ==
  InitConcat /\ UploadParked /\ DetectParked /\ ConsensusParked
    /\ PairParked /\ TwoParked /\ WorkflowParked
SpecConcat == StartConcat /\ [][NextConcat]_vars

\* the upload step of run_full_workflow around one batch_upload run
NextWorkflow ==
  \/ NextUpload
  \/ ConsumeReturn
  \/ BatchUploadRaises

StartWorkflow ==
  InitWorkflow /\ InitUpload /\ DetectParked /\ ConsensusParked
    /\ PairParked /\ TwoParked /\ ConcatParked
SpecWorkflow == StartWorkflow /\ [][NextWorkflow]_vars

====
